---- MODULE Spec2Model ----
(***************************************************************************)
(* MVR.py: the control loop of a camera robot that follows a green blob.   *)
(* Each iteration of the main loop takes the detections of one frame,      *)
(* keeps the largest, steers the pan and tilt servos toward it and sets    *)
(* the two DC motors.  A frame is one action: the program is a single      *)
(* sequential loop and every function it calls returns before the next     *)
(* frame is taken.  The functions of MVR.py are operators on a record of   *)
(* the program's globals and pins; the LEDs, the prints and the drawing    *)
(* calls change nothing that the control logic reads and are left out.     *)
(***************************************************************************)
EXTENDS Integers, Sequences, FiniteSets, TLC

VARIABLES
    pan_angle,      \* global pan_angle
    tilt_angle,     \* global tilt_angle
    last_area,      \* global last_area
    pins,           \* output level of the six motor pins
    blob_list,      \* the detections of the frame just processed
    calls           \* actuator calls of the frame just processed, in order

vars == <<pan_angle, tilt_angle, last_area, pins, blob_list, calls>>

\* ------------------------------------------------------------ constants
LOW_AREA == 8000
HIGH_AREA == 11000
CENTER_CX == 150
CENTER_CY == 115
CENTERED_CX_THRESHOLD == 20
CENTERED_CY_THRESHOLD == 20
LOW_ANGLE == 60
HIGH_ANGLE == 120
PARALLEL_LOW == 75
PARALLEL_HIGH == 105
\* upper clamp of pan_adjust and of tiltAdjust, and the divisor of both
PAN_MAX == 179
TILT_MAX == 149
STEP_DIV == 12

\* ------------------------------------------------------------ helpers
\* x in range(lo, hi) of Python, for integers
InRange(x, lo, hi) == lo <= x /\ x < hi

Abs(x) == IF x < 0 THEN -x ELSE x

\* the call `cmd` made by function `fn` is appended to the frame's calls
Call(s, fn, cmd, arg) == [s EXCEPT !.calls = Append(@, <<fn, cmd, arg>>)]

\* ------------------------------------------------------------ motors
left_motor(s, direction) ==
    IF direction < 0
    THEN [s EXCEPT !.LEFT_MOTOR1 = 1, !.LEFT_MOTOR2 = 0, !.LEFT_ENABLE = 1]
    ELSE [s EXCEPT !.LEFT_MOTOR1 = 0, !.LEFT_MOTOR2 = 1, !.LEFT_ENABLE = 1]

right_motor(s, direction) ==
    IF direction < 0
    THEN [s EXCEPT !.RIGHT_MOTOR1 = 0, !.RIGHT_MOTOR2 = 1, !.RIGHT_ENABLE = 1]
    ELSE [s EXCEPT !.RIGHT_MOTOR1 = 1, !.RIGHT_MOTOR2 = 0, !.RIGHT_ENABLE = 1]

\* mutant of stop: the right enable line is left as it was
stop_left_only(s) == [s EXCEPT !.LEFT_ENABLE = 0]

stop(s) == [s EXCEPT !.RIGHT_ENABLE = 0, !.LEFT_ENABLE = 0]

\* mutant of pivot_right: the two directions are exchanged
pivot_right_swapped(s) == right_motor(left_motor(s, 1), -1)

pivot_right(s) == right_motor(left_motor(s, -1), 1)

pivot_left(s) == right_motor(left_motor(s, 1), -1)

reverse(s) == right_motor(left_motor(s, -1), -1)

forward(s) == right_motor(left_motor(s, 1), 1)

\* ------------------------------------------------------------ servos
\* mutant of pan_adjust: the upper clamp is missing
pan_adjust_no_upper_clamp(s, deltaX) ==
    LET a == s.pan_angle + (deltaX \div STEP_DIV)
        c == IF a < 0 THEN 0 ELSE a
    IN  Call([s EXCEPT !.pan_angle = c], "pan_adjust", "pan.angle", c)

\* mutant of pan_adjust: the step is a tenth of the error
pan_adjust_div10(s, deltaX) ==
    LET a == s.pan_angle + (deltaX \div 10)
        c == IF a < 0 THEN 0 ELSE IF a > PAN_MAX THEN PAN_MAX ELSE a
    IN  Call([s EXCEPT !.pan_angle = c], "pan_adjust", "pan.angle", c)

pan_adjust(s, deltaX) ==
    LET a == s.pan_angle + (deltaX \div STEP_DIV)
        c == IF a < 0 THEN 0 ELSE IF a > PAN_MAX THEN PAN_MAX ELSE a
    IN  Call([s EXCEPT !.pan_angle = c], "pan_adjust", "pan.angle", c)

\* mutant of tiltAdjust: the step is added, as in pan_adjust
tiltAdjust_added(s, deltaY) ==
    LET a == s.tilt_angle + (deltaY \div STEP_DIV)
        c == IF a < 0 THEN 0 ELSE IF a > TILT_MAX THEN TILT_MAX ELSE a
    IN  Call([s EXCEPT !.tilt_angle = c], "tiltAdjust", "tilt.angle", c)

\* mutant of tiltAdjust: the error is negated before the division
tiltAdjust_negated(s, deltaY) ==
    LET a == s.tilt_angle + ((-deltaY) \div STEP_DIV)
        c == IF a < 0 THEN 0 ELSE IF a > TILT_MAX THEN TILT_MAX ELSE a
    IN  Call([s EXCEPT !.tilt_angle = c], "tiltAdjust", "tilt.angle", c)

tiltAdjust(s, deltaY) ==
    LET a == s.tilt_angle - (deltaY \div STEP_DIV)
        c == IF a < 0 THEN 0 ELSE IF a > TILT_MAX THEN TILT_MAX ELSE a
    IN  Call([s EXCEPT !.tilt_angle = c], "tiltAdjust", "tilt.angle", c)

\* ------------------------------------------------------------ decisions
\* mutant of is_parallel: PARALLEL_HIGH is included
is_parallel_inclusive(s) ==
    PARALLEL_LOW <= s.pan_angle /\ s.pan_angle <= PARALLEL_HIGH

is_parallel(s) == InRange(s.pan_angle, PARALLEL_LOW, PARALLEL_HIGH)

\* mutant of check_pan_extreme: the high test is an `if`, not an `elif`, so
\* its else branch also runs after a pivot right
check_pan_extreme_if(s) ==
    LET t == IF s.pan_angle < LOW_ANGLE
             THEN pivot_right(Call(s, "check_pan_extreme", "pivot_right", 0))
             ELSE s
    IN  IF t.pan_angle > HIGH_ANGLE
        THEN pivot_left(Call(t, "check_pan_extreme", "pivot_left", 0))
        ELSE stop(Call(t, "check_pan_extreme", "stop", 0))

check_pan_extreme(s) ==
    IF s.pan_angle < LOW_ANGLE
    THEN pivot_right(Call(s, "check_pan_extreme", "pivot_right", 0))
    ELSE IF s.pan_angle > HIGH_ANGLE
    THEN pivot_left(Call(s, "check_pan_extreme", "pivot_left", 0))
    ELSE stop(Call(s, "check_pan_extreme", "stop", 0))

check_tilt_extreme(s) ==
    IF ~InRange(s.tilt_angle, LOW_ANGLE, HIGH_ANGLE)
    THEN reverse(Call(s, "check_tilt_extreme", "reverse", 0))
    ELSE stop(Call(s, "check_tilt_extreme", "stop", 0))

\* mutant of center_cx: an error of exactly the threshold is close enough
center_cx_inclusive(s, the_blob) ==
    LET off_center == CENTER_CX - the_blob.cx
    IN  IF Abs(off_center) <= CENTERED_CX_THRESHOLD THEN s
        ELSE pan_adjust(check_pan_extreme(s), off_center)

center_cx(s, the_blob) ==
    LET off_center == CENTER_CX - the_blob.cx
    IN  IF Abs(off_center) < CENTERED_CX_THRESHOLD
        THEN s
        ELSE pan_adjust(check_pan_extreme(s), off_center)

center_cy(s, the_blob) ==
    LET off_center == CENTER_CY - the_blob.cy
    IN  IF Abs(off_center) < CENTERED_CY_THRESHOLD
        THEN s
        ELSE tiltAdjust(check_tilt_extreme(s), off_center)

\* the noise threshold on the change of area; sense_area computes the change
\* and never compares it with this
MIN_DELTA_A == 200

\* mutant of sense_area: a change of area below MIN_DELTA_A is taken as
\* noise and the motors are left as they are
sense_area_delta(s, the_blob) ==
    LET new_area == the_blob.area
        delta_a == s.last_area - new_area
        t == [s EXCEPT !.last_area = new_area]
    IN  IF Abs(delta_a) < MIN_DELTA_A THEN t
        ELSE IF is_parallel(t) /\ ~InRange(new_area, LOW_AREA, HIGH_AREA)
        THEN IF new_area > HIGH_AREA
             THEN reverse(Call(t, "sense_area", "reverse", 0))
             ELSE IF new_area < LOW_AREA
             THEN forward(Call(t, "sense_area", "forward", 0))
             ELSE t
        ELSE IF is_parallel(t) /\ InRange(new_area, LOW_AREA, HIGH_AREA)
        THEN stop(Call(t, "sense_area", "stop", 0))
        ELSE t

\* mutant of sense_area: forward and reverse are not gated by is_parallel
sense_area_ungated(s, the_blob) ==
    LET new_area == the_blob.area
        t == [s EXCEPT !.last_area = new_area]
    IN  IF ~InRange(new_area, LOW_AREA, HIGH_AREA)
        THEN IF new_area > HIGH_AREA
             THEN reverse(Call(t, "sense_area", "reverse", 0))
             ELSE IF new_area < LOW_AREA
             THEN forward(Call(t, "sense_area", "forward", 0))
             ELSE t
        ELSE IF is_parallel(t) /\ InRange(new_area, LOW_AREA, HIGH_AREA)
        THEN stop(Call(t, "sense_area", "stop", 0))
        ELSE t

\* mutant of sense_area: inside the band nothing is commanded
sense_area_no_stop(s, the_blob) ==
    LET new_area == the_blob.area
        t == [s EXCEPT !.last_area = new_area]
    IN  IF is_parallel(t) /\ ~InRange(new_area, LOW_AREA, HIGH_AREA)
        THEN IF new_area > HIGH_AREA
             THEN reverse(Call(t, "sense_area", "reverse", 0))
             ELSE IF new_area < LOW_AREA
             THEN forward(Call(t, "sense_area", "forward", 0))
             ELSE t
        ELSE t

\* mutant of sense_area: the polarity is inverted, a large area drives
\* forward and a small one in reverse
sense_area_inverted(s, the_blob) ==
    LET new_area == the_blob.area
        t == [s EXCEPT !.last_area = new_area]
    IN  IF is_parallel(t) /\ ~InRange(new_area, LOW_AREA, HIGH_AREA)
        THEN IF new_area > HIGH_AREA
             THEN forward(Call(t, "sense_area", "forward", 0))
             ELSE IF new_area < LOW_AREA
             THEN reverse(Call(t, "sense_area", "reverse", 0))
             ELSE t
        ELSE IF is_parallel(t) /\ InRange(new_area, LOW_AREA, HIGH_AREA)
        THEN stop(Call(t, "sense_area", "stop", 0))
        ELSE t

sense_area(s, the_blob) ==
    LET new_area == the_blob.area
        t == [s EXCEPT !.last_area = new_area]
    IN  IF is_parallel(t) /\ ~InRange(new_area, LOW_AREA, HIGH_AREA)
        THEN IF new_area > HIGH_AREA
             THEN reverse(Call(t, "sense_area", "reverse", 0))
             ELSE IF new_area < LOW_AREA
             THEN forward(Call(t, "sense_area", "forward", 0))
             ELSE t
        ELSE IF is_parallel(t) /\ InRange(new_area, LOW_AREA, HIGH_AREA)
        THEN stop(Call(t, "sense_area", "stop", 0))
        ELSE t

\* ------------------------------------------------------------ main loop
\* the first blob of the largest area: bigBlob starts as blob_list[0] and
\* is replaced only by a strictly larger blob
\* mutant of BigBlobFrom: a blob of equal area replaces bigBlob too
RECURSIVE BigBlobFrom_or_equal(_, _, _)
BigBlobFrom_or_equal(list, i, bigBlob) ==
    IF i > Len(list) THEN bigBlob
    ELSE BigBlobFrom_or_equal(list, i + 1,
                     IF bigBlob.area <= list[i].area THEN list[i] ELSE bigBlob)

RECURSIVE BigBlobFrom(_, _, _)
BigBlobFrom(list, i, bigBlob) ==
    IF i > Len(list) THEN bigBlob
    ELSE BigBlobFrom(list, i + 1,
                     IF bigBlob.area < list[i].area THEN list[i] ELSE bigBlob)

BigBlob(list) == BigBlobFrom(list, 1, list[1])

\* the globals and pins as one record, with the frame's calls emptied
StateOf(pan, tilt, area, p) ==
    [pan_angle |-> pan, tilt_angle |-> tilt, last_area |-> area,
     LEFT_MOTOR1 |-> p.LEFT_MOTOR1, LEFT_MOTOR2 |-> p.LEFT_MOTOR2,
     LEFT_ENABLE |-> p.LEFT_ENABLE,
     RIGHT_MOTOR1 |-> p.RIGHT_MOTOR1, RIGHT_MOTOR2 |-> p.RIGHT_MOTOR2,
     RIGHT_ENABLE |-> p.RIGHT_ENABLE,
     calls |-> <<>>]

State == StateOf(pan_angle, tilt_angle, last_area, pins)

PinsOf(s) ==
    [LEFT_MOTOR1 |-> s.LEFT_MOTOR1, LEFT_MOTOR2 |-> s.LEFT_MOTOR2,
     LEFT_ENABLE |-> s.LEFT_ENABLE,
     RIGHT_MOTOR1 |-> s.RIGHT_MOTOR1, RIGHT_MOTOR2 |-> s.RIGHT_MOTOR2,
     RIGHT_ENABLE |-> s.RIGHT_ENABLE]

Store(s, list) ==
    /\ pan_angle' = s.pan_angle
    /\ tilt_angle' = s.tilt_angle
    /\ last_area' = s.last_area
    /\ pins' = PinsOf(s)
    /\ calls' = s.calls
    /\ blob_list' = list

\* mutant of TrackBlob: center_cy runs before center_cx
TrackBlob_cy_first(s, list) ==
    LET bigBlob == BigBlob(list)
    IN  sense_area(center_cx(center_cy(s, bigBlob), bigBlob), bigBlob)

\* the body of the loop after the empty-list test
TrackBlob(s, list) ==
    LET bigBlob == BigBlob(list)
    IN  sense_area(center_cy(center_cx(s, bigBlob), bigBlob), bigBlob)

\* a frame in which find_blobs returns nothing: stop() and continue
FrameEmpty ==
    /\ Store(stop(Call(State, "main", "stop", 0)), <<>>)
    /\ Len(blob_list') = 0

\* a frame in which find_blobs returns a non-empty list, one of `lists`
FrameBlobs(lists) ==
    \E list \in lists :
        /\ Len(list) # 0
        /\ Store(TrackBlob(State, list), list)

\* ------------------------------------------------------------ inputs
Blobs(CX, CY, AREA) == [cx : CX, cy : CY, area : AREA]

\* one detection per frame
OneBlob(CX, CY, AREA) == {<<b>> : b \in Blobs(CX, CY, AREA)}

\* areas below, on both ends of, inside and above the band
AreaVals == {LOW_AREA - 1, LOW_AREA, 9000, HIGH_AREA, HIGH_AREA + 1}

\* centroids inside the frame.  cx: centred, or an error of +144 or -144,
\* a pan step of 12 either way (12 is the largest step up a frame allows);
\* with the clamps the pan angles reached are those 0, 6 and 11 mod 12, on
\* both sides of 60 and of 120.  cy: centred, or an error of -120, a tilt
\* step of 10 upward: 90, 100, .. 140, 149.
CxVals == {CENTER_CX, CENTER_CX - 144, CENTER_CX + 144}
CyVals == {CENTER_CY, CENTER_CY + 120}

\* a centring error far larger than any frame gives
MaxErr == 5000
WideCx == {CENTER_CX, CENTER_CX - 144, CENTER_CX - MaxErr, CENTER_CX + MaxErr}
WideCy == {CENTER_CY, CENTER_CY + 120, CENTER_CY - MaxErr, CENTER_CY + MaxErr}
WideAreas == {LOW_AREA - 1, HIGH_AREA + 1}

Init ==
    /\ pan_angle = 90
    /\ tilt_angle = 90
    /\ last_area = 0
    /\ pins = [LEFT_MOTOR1 |-> 0, LEFT_MOTOR2 |-> 0, LEFT_ENABLE |-> 0,
               RIGHT_MOTOR1 |-> 0, RIGHT_MOTOR2 |-> 0, RIGHT_ENABLE |-> 0]
    /\ blob_list = <<>>
    /\ calls = <<>>

Next ==
    \/ FrameEmpty
    \/ FrameBlobs(OneBlob(CxVals, CyVals, AreaVals))

Spec == Init /\ [][Next]_vars

\* the same loop fed centroids with arbitrarily large errors
NextWide ==
    \/ FrameEmpty
    \/ FrameBlobs(OneBlob(WideCx, WideCy, WideAreas))

SpecWide == Init /\ [][NextWide]_vars

\* the loop fed a target that is off centre on one axis at a time, with the
\* other axis at its neutral 90 degrees, so that each axis runs through its
\* whole range by the smallest and the largest steps a frame allows.
\* cx: centred; errors of 19 and -19, the edge of the deadzone; errors of 20
\* and -20, the smallest steps (+1, -2); the frame's edges 0 and 319, the
\* largest steps (+12, -15).  cy likewise: errors of 19, -19, 20, -20 (steps
\* -1, +2), errors of 24 and -24, multiples of the step divisor (steps -2,
\* +2), and the edges 0 and 239 (steps -9, +11).
FRAME_W == 320
FRAME_H == 240
AxisCx == {CENTER_CX, CENTER_CX - 19, CENTER_CX + 19, CENTER_CX - 20,
           CENTER_CX + 20, 0, FRAME_W - 1}
AxisCy == {CENTER_CY, CENTER_CY - 19, CENTER_CY + 19, CENTER_CY - 20,
           CENTER_CY + 20, CENTER_CY - 24, CENTER_CY + 24, 0, FRAME_H - 1}
AxisAreas == {LOW_AREA - 1, 9000, HIGH_AREA + 1}

\* frames that move the pan axis only, taken while the tilt axis is neutral
FramePan ==
    /\ tilt_angle = 90
    /\ FrameBlobs(OneBlob(AxisCx, {CENTER_CY}, AxisAreas))

\* frames that move the tilt axis only, taken while the pan axis is neutral
FrameTilt ==
    /\ pan_angle = 90
    /\ FrameBlobs(OneBlob({CENTER_CX}, AxisCy, AxisAreas))

NextAxis ==
    \/ FrameEmpty
    \/ FramePan
    \/ FrameTilt

SpecAxis == Init /\ [][NextAxis]_vars

\* the loop fed up to MaxBlobs detections a frame: a centred blob below the
\* band, and two blobs of one area inside the band, one centred and one far
\* to the left (a pan step of 12), which are told apart by what the frame
\* does with them
MaxBlobs == 3
SelectBlobs ==
    {[cx |-> CENTER_CX, cy |-> CENTER_CY, area |-> LOW_AREA - 1],
     [cx |-> CENTER_CX, cy |-> CENTER_CY, area |-> 9000],
     [cx |-> CENTER_CX - 144, cy |-> CENTER_CY, area |-> 9000]}
BlobLists == UNION {[1..n -> SelectBlobs] : n \in 1..MaxBlobs}

NextSelect ==
    \/ FrameEmpty
    \/ FrameBlobs(BlobLists)

SpecSelect == Init /\ [][NextSelect]_vars

\* ------------------------------------------------------------ observations
\* the drive decision that the levels of the six pins amount to
DecisionOf(p) ==
    LET dir == <<p.LEFT_MOTOR1, p.LEFT_MOTOR2, p.RIGHT_MOTOR1, p.RIGHT_MOTOR2>>
    IN  IF p.LEFT_ENABLE = 0 /\ p.RIGHT_ENABLE = 0 THEN "Stop"
        ELSE IF p.LEFT_ENABLE = 0 \/ p.RIGHT_ENABLE = 0 THEN "Other"
        ELSE IF dir = <<0, 1, 1, 0>> THEN "Forward"
        ELSE IF dir = <<1, 0, 0, 1>> THEN "Reverse"
        ELSE IF dir = <<1, 0, 1, 0>> THEN "PivotRight"
        ELSE IF dir = <<0, 1, 0, 1>> THEN "PivotLeft"
        ELSE "Other"

DriveCmds == {"stop", "forward", "reverse", "pivot_left", "pivot_right"}

\* the drive commands of the frame, in order
DriveCalls == SelectSeq(calls, LAMBDA c : c[2] \in DriveCmds)

\* function fn made the call cmd in the frame
Issued(fn, cmd) == \E i \in 1..Len(calls) : calls[i][1] = fn /\ calls[i][2] = cmd

\* position of the first call cmd of fn in the frame, 0 if there is none
FirstCall(fn, cmd) ==
    IF Issued(fn, cmd)
    THEN CHOOSE i \in 1..Len(calls) :
            /\ calls[i][1] = fn /\ calls[i][2] = cmd
            /\ \A j \in 1..(i - 1) : ~(calls[j][1] = fn /\ calls[j][2] = cmd)
    ELSE 0

HasTarget == blob_list # <<>>

\* the order in which the loop body reaches the functions that drive
FnOrder(fn) ==
    CASE fn = "main" -> 0
      [] fn = "check_pan_extreme" -> 1
      [] fn = "check_tilt_extreme" -> 2
      [] fn = "sense_area" -> 3

\* the drive decision a drive command sets
CmdDecision(cmd) ==
    CASE cmd = "stop" -> "Stop"
      [] cmd = "forward" -> "Forward"
      [] cmd = "reverse" -> "Reverse"
      [] cmd = "pivot_left" -> "PivotLeft"
      [] cmd = "pivot_right" -> "PivotRight"

\* ------------------------------------------------------------ claims

\* C1: from pan = tilt = 90, after any frames with arbitrary cx and cy,
\* however large the centring error, pan_angle is in [0,179], tilt_angle is
\* in [0,149], and every angle passed to pan.angle() or tilt.angle() is in
\* that axis's range.
C1_AnglesInRange ==
    /\ pan_angle \in 0..179
    /\ tilt_angle \in 0..149
    /\ \A i \in 1..Len(calls) :
        /\ calls[i][2] = "pan.angle" => calls[i][3] \in 0..179
        /\ calls[i][2] = "tilt.angle" => calls[i][3] \in 0..149

\* a frame whose errors are MaxErr on both axes has driven both angles to
\* their upper clamps and commanded the servos there
C1_Witness ==
    /\ HasTarget
    /\ blob_list[1].cx = CENTER_CX - MaxErr
    /\ blob_list[1].cy = CENTER_CY + MaxErr
    /\ calls[2] = <<"pan_adjust", "pan.angle", 179>>
    /\ calls[4] = <<"tiltAdjust", "tilt.angle", 149>>
    /\ pan_angle = 179 /\ tilt_angle = 149

\* C2: a frame with no detection ends with both enable lines low, whatever
\* the motors were doing, and runs nothing else: pan_angle, tilt_angle and
\* last_area keep their values and the only call of the frame is stop().
C2_EmptyFrameStops ==
    [][blob_list' = <<>> =>
        /\ pins'.LEFT_ENABLE = 0 /\ pins'.RIGHT_ENABLE = 0
        /\ pan_angle' = pan_angle
        /\ tilt_angle' = tilt_angle
        /\ last_area' = last_area
        /\ calls' = << <<"main", "stop", 0>> >>]_vars

\* an empty frame that found the direction pins set for reverse by an
\* earlier frame, away from the neutral angles, and left the motors off
C2_Witness ==
    /\ ~HasTarget
    /\ calls = << <<"main", "stop", 0>> >>
    /\ pins.LEFT_MOTOR1 = 1 /\ pins.RIGHT_MOTOR2 = 1
    /\ DecisionOf(pins) = "Stop"
    /\ pan_angle # 90 /\ tilt_angle # 90 /\ last_area = HIGH_AREA + 1

\* C3: a frame with a target that starts with the tilt angle outside the
\* extreme window ends with the drive decision Reverse, whatever the pan
\* angle, the area and cy are.
C3_TiltExtremeEndsReverse ==
    [][(blob_list' # <<>> /\ (tilt_angle < LOW_ANGLE \/ tilt_angle > HIGH_ANGLE))
        => DecisionOf(pins') = "Reverse"]_vars

\* C4: a frame with a target that starts with pan_angle < LOW_ANGLE and the
\* tilt angle inside its window ends with the drive decision PivotRight,
\* for every area, cx and cy.
C4_PanLowEndsPivotRight ==
    [][(/\ blob_list' # <<>>
        /\ pan_angle < LOW_ANGLE
        /\ LOW_ANGLE <= tilt_angle /\ tilt_angle < HIGH_ANGLE)
        => DecisionOf(pins') = "PivotRight"]_vars

\* C5: a frame with a target in which the parallelism gate is false and
\* neither axis is at an extreme (before and after the frame's adjustments)
\* ends with the drive decision Stop, whatever the motors were doing.
C5_NoGateNoExtremeEndsStop ==
    [][(/\ blob_list' # <<>>
        /\ \A pan \in {pan_angle, pan_angle'} :
            /\ ~(PARALLEL_LOW <= pan /\ pan < PARALLEL_HIGH)
            /\ LOW_ANGLE <= pan /\ pan <= HIGH_ANGLE
        /\ \A tilt \in {tilt_angle, tilt_angle'} :
            LOW_ANGLE <= tilt /\ tilt < HIGH_ANGLE)
        => DecisionOf(pins') = "Stop"]_vars

C7_TiltOverridesPanPivot ==
    [][(/\ blob_list' # <<>>
        /\ Abs(CENTER_CX - BigBlob(blob_list').cx) >= CENTERED_CX_THRESHOLD
        /\ Abs(CENTER_CY - BigBlob(blob_list').cy) >= CENTERED_CY_THRESHOLD
        /\ pan_angle < 60
        /\ (tilt_angle < 60 \/ tilt_angle >= 120))
        => /\ DecisionOf(pins') = "Reverse"
           /\ calls'[1] = <<"check_pan_extreme", "pivot_right", 0>>
           /\ calls'[3] = <<"check_tilt_extreme", "reverse", 0>>
           /\ DriveCalls' = <<calls'[1], calls'[3]>>]_vars

\* both checks fired in the frame, the pan pivot first, the pan angle went
\* from 59 to 71 by the largest step up a frame allows, and the frame ended
\* in Reverse
C7_Witness ==
    /\ HasTarget
    /\ FirstCall("check_pan_extreme", "pivot_right") = 1
    /\ FirstCall("check_tilt_extreme", "reverse") = 3
    /\ calls[2] = <<"pan_adjust", "pan.angle", 71>>
    /\ DecisionOf(pins) = "Reverse"

\* C8: in a frame whose pan angle is outside [75,105) when sense_area runs,
\* sense_area calls neither forward() nor reverse(), whatever the area.
C8_GateClosedNoForwardReverse ==
    (HasTarget /\ ~(75 <= pan_angle /\ pan_angle < 105))
        => /\ ~Issued("sense_area", "forward")
           /\ ~Issued("sense_area", "reverse")

\* a frame with an area that calls for reverse, the pan angle just above
\* the parallel window, and no call by sense_area
C8_Witness ==
    /\ HasTarget
    /\ blob_list[1].area = HIGH_AREA + 1
    /\ pan_angle = 108
    /\ \A i \in 1..Len(calls) : calls[i][1] # "sense_area"

\* C9: with the pan angle in the parallel window, the distance decision of
\* the frame is Stop for every area with LOW_AREA <= area <= HIGH_AREA, both
\* ends included.
C9_ClosedBandStops ==
    (/\ HasTarget
     /\ 75 <= pan_angle /\ pan_angle < 105
     /\ LOW_AREA <= BigBlob(blob_list).area
     /\ BigBlob(blob_list).area <= HIGH_AREA)
        => DecisionOf(pins) = "Stop"

\* C10: with the pan angle in the parallel window, cx and cy inside their
\* deadzones and LOW_AREA < area < HIGH_AREA, the frame ends in Stop with
\* both angles unchanged and no servo command, and the same frame run again
\* from the state it leaves gives Stop and the same angles again.
C10_InBandCentredIsStable ==
    [][(/\ blob_list' # <<>>
        /\ 75 <= pan_angle /\ pan_angle < 105
        /\ Abs(CENTER_CX - BigBlob(blob_list').cx) < CENTERED_CX_THRESHOLD
        /\ Abs(CENTER_CY - BigBlob(blob_list').cy) < CENTERED_CY_THRESHOLD
        /\ LOW_AREA < BigBlob(blob_list').area
        /\ BigBlob(blob_list').area < HIGH_AREA)
        => /\ DecisionOf(pins') = "Stop"
           /\ pan_angle' = pan_angle
           /\ tilt_angle' = tilt_angle
           /\ calls' = << <<"sense_area", "stop", 0>> >>
           /\ LET again == TrackBlob(StateOf(pan_angle', tilt_angle',
                                             last_area', pins'), blob_list')
              IN  /\ DecisionOf(PinsOf(again)) = "Stop"
                  /\ again.pan_angle = pan_angle
                  /\ again.tilt_angle = tilt_angle
                  /\ again.calls = calls']_vars

\* a centred in-band frame that found the direction pins set for forward
\* and ended with the motors off and the pan angle off neutral
C10_Witness ==
    /\ HasTarget
    /\ blob_list[1] = [cx |-> CENTER_CX, cy |-> CENTER_CY, area |-> 9000]
    /\ pan_angle = 78
    /\ pins.LEFT_MOTOR2 = 1 /\ pins.RIGHT_MOTOR1 = 1
    /\ DecisionOf(pins) = "Stop"
    /\ calls = << <<"sense_area", "stop", 0>> >>

\* C11: with the pan angle in the parallel window and cx, cy inside their
\* deadzones, the frame's drive decision is Reverse for every area above
\* HIGH_AREA and Forward for every area below LOW_AREA.
C11_PolarityOfDistance ==
    (/\ HasTarget
     /\ 75 <= pan_angle /\ pan_angle < 105
     /\ Abs(150 - blob_list[1].cx) < 20
     /\ Abs(115 - blob_list[1].cy) < 20)
        => /\ blob_list[1].area > 11000 =>
                /\ DecisionOf(pins) = "Reverse"
                /\ calls = << <<"sense_area", "reverse", 0>> >>
           /\ blob_list[1].area < 8000 =>
                /\ DecisionOf(pins) = "Forward"
                /\ calls = << <<"sense_area", "forward", 0>> >>

\* a centred frame of area 11001 at pan angle 102 that ended in Reverse
C11_Witness ==
    /\ HasTarget
    /\ blob_list[1] = [cx |-> CENTER_CX, cy |-> CENTER_CY, area |-> HIGH_AREA + 1]
    /\ pan_angle = 102
    /\ DecisionOf(pins) = "Reverse"
    /\ calls = << <<"sense_area", "reverse", 0>> >>

\* the levels of a motor's two direction pins
LeftDir(p) == <<p.LEFT_MOTOR1, p.LEFT_MOTOR2>>

RightDir(p) == <<p.RIGHT_MOTOR1, p.RIGHT_MOTOR2>>

\* the two levels exchanged: the opposite direction of rotation
Opposite(dir) == <<dir[2], dir[1]>>

ErrX == CENTER_CX - blob_list[1].cx

ErrY == CENTER_CY - blob_list[1].cy

\* C12: a frame whose pan error is >= 20 moves the pan angle up, strictly
\* unless it is at 179, and never above 179; an error <= -20 moves it down,
\* strictly unless it is at 0, and never below 0.  The tilt angle moves the
\* opposite way: down to 0 for an error >= 20, up to 149 for an error
\* <= -20.  So over frames whose error keeps its sign the angle is monotone.
C12_MonotoneTowardClamp ==
    [][blob_list' # <<>> =>
        /\ ErrX' >= 20 =>
            /\ pan_angle <= pan_angle' /\ pan_angle' <= 179
            /\ pan_angle < 179 => pan_angle < pan_angle'
        /\ ErrX' <= -20 =>
            /\ 0 <= pan_angle' /\ pan_angle' <= pan_angle
            /\ pan_angle > 0 => pan_angle' < pan_angle
        /\ ErrY' >= 20 =>
            /\ 0 <= tilt_angle' /\ tilt_angle' <= tilt_angle
            /\ tilt_angle > 0 => tilt_angle' < tilt_angle
        /\ ErrY' <= -20 =>
            /\ tilt_angle <= tilt_angle' /\ tilt_angle' <= 149
            /\ tilt_angle < 149 => tilt_angle < tilt_angle']_vars

\* a frame with the smallest positive tilt error that brought the tilt
\* angle to its lower clamp
C12_Witness ==
    /\ HasTarget
    /\ ErrY = 20
    /\ tilt_angle = 0
    /\ calls[2] = <<"tiltAdjust", "tilt.angle", 0>>

\* the index of the first detection among those of the largest area
FirstLargest(list) ==
    CHOOSE i \in 1..Len(list) :
        /\ \A j \in 1..Len(list) : list[j].area <= list[i].area
        /\ \A j \in 1..(i - 1) : list[j].area < list[i].area

\* C14: for every non-empty detection list the frame tracks a blob of the
\* largest area, the first in the list among several of that area: the
\* frame leaves the state that tracking that blob alone leaves.
C14_TracksFirstLargest ==
    [][blob_list' # <<>> =>
        LET b == blob_list'[FirstLargest(blob_list')]
            alone == TrackBlob(State, <<b>>)
        IN  /\ last_area' = b.area
            /\ pan_angle' = alone.pan_angle
            /\ tilt_angle' = alone.tilt_angle
            /\ pins' = PinsOf(alone)
            /\ calls' = alone.calls]_vars

\* a frame of three detections, the second and third of the largest area,
\* the second off centre and the third centred: the pan servo was moved, so
\* the second was tracked
C14_Witness ==
    /\ Len(blob_list) = 3
    /\ blob_list[1].area < blob_list[2].area
    /\ blob_list[2].area = blob_list[3].area
    /\ blob_list[2].cx = CENTER_CX - 144
    /\ blob_list[1].cx = CENTER_CX /\ blob_list[3].cx = CENTER_CX
    /\ last_area = blob_list[2].area
    /\ calls[2] = <<"pan_adjust", "pan.angle", pan_angle>>

\* sense_area commanded the motors in the frame
SenseAreaActed == \E cmd \in DriveCmds : Issued("sense_area", cmd)

\* C15: in a frame with a target whose area is not HIGH_AREA itself, the
\* distance decision commands the motors iff the pan angle left by the
\* frame's pan adjustment is in [75,105), 75 included and 105 excluded;
\* the angle at the start of the frame plays no part.
C15_GateOnAdjustedPan ==
    (HasTarget /\ blob_list[1].area # HIGH_AREA) =>
        (SenseAreaActed <=>
            (PARALLEL_LOW <= pan_angle /\ pan_angle < PARALLEL_HIGH))

\* a frame that started at pan 74, outside the window, stepped the pan
\* servo to 75 and then drove on the distance decision
C15_Witness ==
    /\ HasTarget
    /\ blob_list[1].cx = CENTER_CX - CENTERED_CX_THRESHOLD
    /\ calls[2] = <<"pan_adjust", "pan.angle", PARALLEL_LOW>>
    /\ pan_angle = PARALLEL_LOW
    /\ SenseAreaActed

\* C16: in a frame that reaches check_tilt_extreme (cy outside the
\* deadzone), the tilt axis is treated as extreme, and reverse() is called,
\* exactly when the tilt angle is below 60 or above 120; at exactly 60 and
\* at exactly 120 it is not extreme.
C16_TiltExtremeOutsideClosedWindow ==
    [][(blob_list' # <<>> /\ Abs(ErrY') >= CENTERED_CY_THRESHOLD) =>
        (Issued("check_tilt_extreme", "reverse")' <=>
            (tilt_angle < LOW_ANGLE \/ tilt_angle > HIGH_ANGLE))]_vars

\* an angle brought back into the range of the tilt servo
ClampTilt(a) == IF a < 0 THEN 0 ELSE IF a > TILT_MAX THEN TILT_MAX ELSE a

\* C17: a frame whose tilt error is 20 or more in magnitude leaves the tilt
\* angle at clamp(angle + ((-error) // 12), 0, 149), the floor division
\* being applied to the negated error, for every integer error.
C17_TiltStepOfNegatedError ==
    [][(blob_list' # <<>> /\ Abs(ErrY') >= CENTERED_CY_THRESHOLD) =>
        tilt_angle' = ClampTilt(tilt_angle + ((-ErrY') \div 12))]_vars

\* C17, amended: such a frame leaves the tilt angle at
\* clamp(angle - (error // 12), 0, 149), the floor quotient q of the error
\* itself (12q <= error < 12q + 12) being subtracted; that is the angle
\* angle + ((-error) // 12) when the error is a multiple of 12 and one
\* degree above it otherwise, before clamping.  The tilt servo is commanded
\* to that angle.
C17_TiltStepNegatesQuotient ==
    [][(blob_list' # <<>> /\ Abs(ErrY') >= CENTERED_CY_THRESHOLD) =>
        /\ \E q \in -FRAME_H..FRAME_H :
            /\ 12 * q <= ErrY' /\ ErrY' < 12 * q + 12
            /\ tilt_angle' = ClampTilt(tilt_angle - q)
        /\ LET negated == tilt_angle + ((-ErrY') \div 12)
           IN  tilt_angle' = ClampTilt(IF ErrY' % 12 = 0 THEN negated
                                       ELSE negated + 1)
        /\ Issued("tiltAdjust", "tilt.angle")'
        /\ \A i \in 1..Len(calls') :
            calls'[i][2] = "tilt.angle" => calls'[i][3] = tilt_angle']_vars

\* a frame with cy = 95, an error of 20, took the tilt angle from 90 to 89,
\* where the negated error would have taken it to 88
C17_Witness ==
    /\ HasTarget
    /\ ErrY = 20
    /\ tilt_angle = 89
    /\ calls = << <<"check_tilt_extreme", "stop", 0>>,
                  <<"tiltAdjust", "tilt.angle", 89>>,
                  <<"sense_area", "forward", 0>> >>

\* C18: a frame with |150 - cx| < 20 leaves the pan angle unchanged and
\* commands the pan servo nothing, and one with |115 - cy| < 20 leaves the
\* tilt angle unchanged and commands the tilt servo nothing; an error of
\* exactly 20 or -20 is outside the deadzone: the servo is commanded and the
\* angle takes the step of that error (pan +1 or -2, tilt -1 or +2) up to
\* the clamp.
C18_DeadzoneBelowTwenty ==
    [][blob_list' # <<>> =>
        /\ Abs(ErrX') < 20 =>
            /\ pan_angle' = pan_angle
            /\ ~Issued("pan_adjust", "pan.angle")'
            /\ ~Issued("check_pan_extreme", "stop")'
        /\ Abs(ErrY') < 20 =>
            /\ tilt_angle' = tilt_angle
            /\ ~Issued("tiltAdjust", "tilt.angle")'
            /\ ~Issued("check_tilt_extreme", "stop")'
        /\ Abs(ErrX') = 20 =>
            /\ Issued("pan_adjust", "pan.angle")'
            /\ ErrX' = 20 =>
                pan_angle' = IF pan_angle + 1 > 179 THEN 179 ELSE pan_angle + 1
            /\ ErrX' = -20 =>
                pan_angle' = IF pan_angle - 2 < 0 THEN 0 ELSE pan_angle - 2
        /\ Abs(ErrY') = 20 =>
            /\ Issued("tiltAdjust", "tilt.angle")'
            /\ ErrY' = 20 =>
                tilt_angle' = IF tilt_angle - 1 < 0 THEN 0 ELSE tilt_angle - 1
            /\ ErrY' = -20 =>
                tilt_angle' = IF tilt_angle + 2 > 149 THEN 149
                              ELSE tilt_angle + 2]_vars

\* a frame with cx = 130, an error of exactly 20, stepped the pan servo
\* from 90 to 91
C18_Witness ==
    /\ HasTarget
    /\ ErrX = 20
    /\ pan_angle = 91
    /\ calls[1] = <<"check_pan_extreme", "stop", 0>>
    /\ calls[2] = <<"pan_adjust", "pan.angle", 91>>

\* the areas last_area takes: its initial 0 and the areas of the detections
LastAreas == AreaVals \cup {0}

\* what the frame just processed would have left, had last_area been a
\* when it started
FrameFrom(a) ==
    LET s == StateOf(pan_angle, tilt_angle, a, pins)
    IN  IF blob_list' = <<>> THEN stop(Call(s, "main", "stop", 0))
        ELSE TrackBlob(s, blob_list')

C20_PanPivotNotOverridden ==
    [][(/\ blob_list' # <<>>
        /\ blob_list'[1].cx \in 0..(FRAME_W - 1)
        /\ Abs(ErrX') >= CENTERED_CX_THRESHOLD
        /\ (pan_angle < LOW_ANGLE \/ pan_angle > HIGH_ANGLE))
        => /\ calls'[1] = <<"check_pan_extreme",
                            IF pan_angle < LOW_ANGLE THEN "pivot_right"
                            ELSE "pivot_left", 0>>
           /\ ~(PARALLEL_LOW <= pan_angle' /\ pan_angle' < PARALLEL_HIGH)
           /\ ~SenseAreaActed'
           /\ Abs(ErrY') < CENTERED_CY_THRESHOLD =>
                /\ Len(DriveCalls') = 1
                /\ DecisionOf(pins') = CmdDecision(calls'[1][2])
           /\ \A cx \in 0..(FRAME_W - 1) :
                Abs(CENTER_CX - cx) >= CENTERED_CX_THRESHOLD =>
                    ~is_parallel(pan_adjust(State, CENTER_CX - cx))]_vars

\* a frame with cx = 319 that started at pan 121: pivot_left was commanded,
\* the pan servo took its largest step down, to 106, and the frame ended on
\* the pivot
C20_Witness ==
    /\ HasTarget
    /\ blob_list[1].cx = FRAME_W - 1
    /\ pan_angle = PARALLEL_HIGH + 1
    /\ calls = << <<"check_pan_extreme", "pivot_left", 0>>,
                  <<"pan_adjust", "pan.angle", PARALLEL_HIGH + 1>> >>
    /\ DecisionOf(pins) = "PivotLeft"

====
